---- MODULE Spec2Model ----
(***************************************************************************)
(* Model of the oscillating-airfoil simulator: the quasi-steady core       *)
(* (physics.py), the shared default dictionary (run_simulation.py) and the *)
(* two request handlers that drive the core (api.py).                      *)
(*                                                                         *)
(* Numbers.  A float is modelled by an exact decimal-scaled rational       *)
(* (n/d) * 10^e, or by one of the IEEE specials nan, +inf, -inf.  The      *)
(* exponent e is a multiple of 12: it is 0 for every input and constant    *)
(* except the power floor 1e-12, and only products and quotients with that *)
(* floor move it.  The finite form is canonical (gcd(n,d) = 1, d > 0, zero *)
(* is 0/1 * 10^0; n and d stay below 10^12), so equal values are equal     *)
(* records.  Rounding and overflow of binary64 are not modelled; the       *)
(* zero / inf / nan cases of IEEE arithmetic are.                          *)
(***************************************************************************)
EXTENDS Integers, Sequences, FiniteSets, TLC

RECURSIVE GCD(_, _)
GCD(a, b) == IF b = 0 THEN a ELSE GCD(b, a % b)

LCM(a, b) == (a \div GCD(a, b)) * b

Abs(x) == IF x < 0 THEN -x ELSE x

RECURSIVE Pow10(_)
Pow10(k) == IF k = 0 THEN 1 ELSE 10 * Pow10(k - 1)

NaN == [k |-> "nan", n |-> 0, d |-> 1, e |-> 0]

PInf == [k |-> "pinf", n |-> 0, d |-> 1, e |-> 0]

NInf == [k |-> "ninf", n |-> 0, d |-> 1, e |-> 0]

\* canonical form of (n/d) * 10^e, for d > 0 and gcd(n, d) = 1
Canon(n, d, e) ==
    IF n = 0 THEN [k |-> "fin", n |-> 0, d |-> 1, e |-> 0]
    ELSE [k |-> "fin", n |-> n, d |-> d, e |-> e]

\* the float (n/d) * 10^e, for d # 0
Mk(n, d, e) ==
    LET s == IF d < 0 THEN -1 ELSE 1
        g == GCD(Abs(n), Abs(d))
    IN  Canon((s * n) \div g, (s * d) \div g, e)

Num(i) == Mk(i, 1, 0)

Frac(n, d) == Mk(n, d, 0)

Zero == Num(0)

IsFin(a) == a.k = "fin"

IsZero(a) == a.k = "fin" /\ a.n = 0

Sign(a) ==
    CASE a.k = "pinf" -> 1
      [] a.k = "ninf" -> -1
      [] a.k = "nan" -> 0
      [] OTHER -> IF a.n > 0 THEN 1 ELSE IF a.n < 0 THEN -1 ELSE 0

InfOfSign(s) == IF s > 0 THEN PInf ELSE NInf

Neg(a) ==
    CASE a.k = "pinf" -> NInf
      [] a.k = "ninf" -> PInf
      [] a.k = "nan" -> NaN
      [] OTHER -> [a EXCEPT !.n = -a.n]

\* IEEE addition
Add(a, b) ==
    IF a.k = "nan" \/ b.k = "nan" THEN NaN
    ELSE IF ~IsFin(a) /\ ~IsFin(b) THEN (IF a.k = b.k THEN a ELSE NaN)
    ELSE IF ~IsFin(a) THEN a
    ELSE IF ~IsFin(b) THEN b
    ELSE LET m == IF a.e < b.e THEN a.e ELSE b.e
             l == LCM(a.d, b.d)
             an == a.n * Pow10(a.e - m) * (l \div a.d)
             bn == b.n * Pow10(b.e - m) * (l \div b.d)
         IN  Mk(an + bn, l, m)

Sub(a, b) == Add(a, Neg(b))

\* IEEE multiplication
Mul(a, b) ==
    IF a.k = "nan" \/ b.k = "nan" THEN NaN
    ELSE IF ~IsFin(a) \/ ~IsFin(b)
         THEN (IF Sign(a) * Sign(b) = 0 THEN NaN ELSE InfOfSign(Sign(a) * Sign(b)))
    ELSE LET g1 == GCD(Abs(a.n), b.d)
             g2 == GCD(Abs(b.n), a.d)
         IN  Canon((a.n \div g1) * (b.n \div g2), (a.d \div g2) * (b.d \div g1), a.e + b.e)

\* IEEE division, as numpy performs it on arrays: x/0 is +-inf, 0/0 is nan
\* (the sign of a zero divisor is not modelled: x/0 takes the sign of x)
Div(a, b) ==
    IF a.k = "nan" \/ b.k = "nan" THEN NaN
    ELSE IF ~IsFin(a) /\ ~IsFin(b) THEN NaN
    ELSE IF ~IsFin(a) THEN InfOfSign(IF Sign(b) = 0 THEN Sign(a) ELSE Sign(a) * Sign(b))
    ELSE IF ~IsFin(b) THEN Zero
    ELSE IF IsZero(b) THEN (IF IsZero(a) THEN NaN ELSE InfOfSign(Sign(a)))
    ELSE Mul(a, Mk(b.d, b.n, -b.e))

\* a <= b on floats (false when either is nan)
Leq(a, b) ==
    IF a.k = "nan" \/ b.k = "nan" THEN FALSE
    ELSE IF a.k = "ninf" \/ b.k = "pinf" THEN TRUE
    ELSE IF a.k = "pinf" \/ b.k = "ninf" THEN FALSE
    ELSE Sign(Sub(b, a)) >= 0

\* floor and ceiling of a finite float, as integers
FloorInt(a) ==
    IF a.e >= 0 THEN (a.n * Pow10(a.e)) \div a.d
    ELSE a.n \div (a.d * Pow10(-a.e))

CeilInt(a) == -FloorInt(Neg(a))

\* np.pi is a float near pi.  The model takes the rational 3 for it (TLC's
\* integers are 32 bits wide and a closer rational overflows them in the
\* lift sum); every use of np.pi in the source is a use of PI here, and Sin
\* below has half-period PI, as np.sin has half-period np.pi up to rounding.
PI == Num(3)

\* np.sin on a finite float.  The argument is reduced by half-periods of PI
\* and the half-wave is Bhaskara's rational approximation
\* 16 r (1-r) / (5 - 4 r (1-r)), r in [0,1): it is 0 at 0, 1/2 at 1/6, 1 at
\* 1/2 and stays in [0, 1], so Sin ranges over [-1, 1] as np.sin does.
Sin(x) ==
    IF ~IsFin(x) THEN NaN
    ELSE LET u == Div(x, PI)
             h == FloorInt(u)
             r == Sub(u, Num(h))
             w == Mul(r, Sub(Num(1), r))
             v == Div(Mul(Num(16), w), Sub(Num(5), Mul(Num(4), w)))
         IN  IF h % 2 = 0 THEN v ELSE Neg(v)

\* np.cos
Cos(x) == Sin(Add(x, Div(PI, Num(2))))

\* np.deg2rad, np.rad2deg
deg2rad(x) == Mul(x, Div(PI, Num(180)))

rad2deg(x) == Mul(x, Div(Num(180), PI))

\* np.abs
NpAbs(a) == IF Sign(a) < 0 THEN Neg(a) ELSE a

(***************************************************************************)
(* physics.py                                                              *)
(***************************************************************************)

\* np.arange(start = 0, stop, step): its length, ceil((stop - 0) / step)
\* clipped at 0; step = 0 raises
arange_len(stop, step) ==
    LET q == CeilInt(Div(stop, step))
    IN  IF q < 0 THEN 0 ELSE q

\* np.arange(0, stop, step): element i (0-based) is 0 + i*step
arange(stop, step) == [i \in 1..arange_len(stop, step) |-> Mul(Num(i - 1), step)]

\* t = np.arange(0, t_end + dt, dt)
time_grid(t_end, dt) == arange(Add(t_end, dt), dt)

\* mutant of alpha_at: a symmetric oscillation, pitch_amp * sin(omega*t + phase)
alpha_at_symmetric(pitch_amp, omega, ti, pitch_phase) ==
    Mul(pitch_amp, Sin(Add(Mul(omega, ti), pitch_phase)))

\* alpha = pitch_amp * (np.sin(omega * t + pitch_phase) + 1) / 2, one sample
alpha_at(pitch_amp, omega, ti, pitch_phase) ==
    Div(Mul(pitch_amp, Add(Sin(Add(Mul(omega, ti), pitch_phase)), Num(1))), Num(2))

\* P[P == 0] = 1e-12
P_FLOOR == Mk(1, 1, -12)

\* mutant of zero_guard: a zero anywhere floors the whole array
zero_guard_global(P0) ==
    [i \in DOMAIN P0 |-> IF \E j \in DOMAIN P0 : IsZero(P0[j]) THEN P_FLOOR ELSE P0[i]]

zero_guard(P0) == [i \in DOMAIN P0 |-> IF IsZero(P0[i]) THEN P_FLOOR ELSE P0[i]]

\* lines 19-25: the statements that can raise, in program order.  S, c, dt,
\* CL_alpha and np.pi are Python floats, so a zero divisor raises
\* ZeroDivisionError; np.arange raises on a zero step.
qsf_raises(params) ==
    LET S == params.S
        c == params.c
    IN  IF IsZero(c) THEN "ZeroDivisionError@19"
        ELSE LET AR == Div(Div(S, c), c)
             IN  IF IsZero(Mul(PI, AR)) THEN "ZeroDivisionError@20"
                 ELSE IF IsZero(Add(Num(1), Div(Mul(Num(2), PI), Mul(PI, AR))))
                      THEN "ZeroDivisionError@20"
                 ELSE IF IsZero(params.dt) THEN "ZeroDivisionError@25"
                 ELSE "none"

\* omega = 2 * np.pi * f
omega_of(f) == Mul(Mul(Num(2), PI), f)

\* AR = (S / c) / c; CL_alpha = params["CL_alpha"] / (1 + 2*np.pi / (np.pi*AR))
CL_alpha_eff(params) ==
    Div(params.CL_alpha,
        Add(Num(1), Div(Mul(Num(2), PI), Mul(PI, Div(Div(params.S, params.c), params.c)))))

\* The array statements of lines 36-78 are elementwise; each is given here
\* for one sample, ti = t[i].

\* x_pos = stroke_amp * np.sin(omega * t)
x_pos_at(stroke_amp, omega, ti) == Mul(stroke_amp, Sin(Mul(omega, ti)))

\* U = Uref + stroke_amp * c * omega * np.cos(omega * t)
U_at(Uref, stroke_amp, c, omega, ti) ==
    Add(Uref, Mul(Mul(Mul(stroke_amp, c), omega), Cos(Mul(omega, ti))))

\* alpha_dot = omega * pitch_amp * np.cos(omega * t + pitch_phase)
alpha_dot_at(pitch_amp, omega, ti, pitch_phase) ==
    Mul(Mul(omega, pitch_amp), Cos(Add(Mul(omega, ti), pitch_phase)))

\* alpha_ddot = -omega**2 * pitch_amp * np.sin(omega * t + pitch_phase)
alpha_ddot_at(pitch_amp, omega, ti, pitch_phase) ==
    Mul(Mul(Neg(Mul(omega, omega)), pitch_amp), Sin(Add(Mul(omega, ti), pitch_phase)))

\* k = 0.5; S_d = 1 + k * np.sin(np.abs(alpha))**2
S_d_at(alpha) == Add(Num(1), Mul(Frac(1, 2), Mul(Sin(NpAbs(alpha)), Sin(NpAbs(alpha)))))

\* CL_trans = CL_alpha * alpha; CL_trans_LEV = CL_trans * S_d
CL_trans_LEV_at(CL_alpha, alpha) == Mul(Mul(CL_alpha, alpha), S_d_at(alpha))

\* k_rot = 0.1; CL_rot = k_rot * (np.pi/2) * (c / U) * alpha_dot
CL_rot_at(c, U, alpha_dot) ==
    Mul(Mul(Mul(Frac(1, 10), Div(PI, Num(2))), Div(c, U)), alpha_dot)

\* CD = CD0 + CD_alpha * alpha**2
CD_at(CD0, CD_alpha, alpha) == Add(CD0, Mul(CD_alpha, Mul(alpha, alpha)))

\* q = 0.5 * rho * U**2
q_at(rho, U) == Mul(Mul(Frac(1, 2), rho), Mul(U, U))

\* L_added = K_am * 0.25 * np.pi * rho * c**2 * S * alpha_ddot
L_added_at(K_am, rho, c, S, alpha_ddot) ==
    Mul(Mul(Mul(Mul(Mul(Mul(K_am, Frac(1, 4)), PI), rho), Mul(c, c)), S), alpha_ddot)

\* L_trans = q*S*CL_trans_LEV; L_rot = q*S*CL_rot; L = L_trans + L_rot + L_added
L_at(q, S, CL_trans_LEV, CL_rot, L_added) ==
    Add(Add(Mul(Mul(q, S), CL_trans_LEV), Mul(Mul(q, S), CL_rot)), L_added)

\* D = q * S * CD
D_at(q, S, CD) == Mul(Mul(q, S), CD)

\* lines 36-45 for one sample
kinematics(params, omega, ti) ==
    [t |-> ti,
     x_pos |-> x_pos_at(params.stroke_amp, omega, ti),
     U |-> U_at(params.Uref, params.stroke_amp, params.c, omega, ti),
     alpha |-> alpha_at(params.pitch_amp, omega, ti, params.pitch_phase),
     alpha_dot |-> alpha_dot_at(params.pitch_amp, omega, ti, params.pitch_phase),
     alpha_ddot |-> alpha_ddot_at(params.pitch_amp, omega, ti, params.pitch_phase)]

\* lines 50-64 for one sample, kin its kinematics
coefficients(params, CL_alpha, kin) ==
    [CL_trans_LEV |-> CL_trans_LEV_at(CL_alpha, kin.alpha),
     CL_rot |-> CL_rot_at(params.c, kin.U, kin.alpha_dot),
     CD |-> CD_at(params.CD0, params.CD_alpha, kin.alpha)]

\* lines 45, 59 and 69-78 for one sample: the sample's entry in each returned
\* array, with P0 the power D * U before the guard of line 79
sample_of(params, kin, cf) ==
    [t |-> kin.t,
     x_pos |-> kin.x_pos,
     U |-> kin.U,
     alpha |-> kin.alpha,
     theta_deg |-> rad2deg(kin.alpha),
     CL |-> Add(cf.CL_trans_LEV, cf.CL_rot),
     CD |-> cf.CD,
     L |-> L_at(q_at(params.rho, kin.U), params.S, cf.CL_trans_LEV, cf.CL_rot,
                L_added_at(params.K_am, params.rho, params.c, params.S, kin.alpha_ddot)),
     D |-> D_at(q_at(params.rho, kin.U), params.S, cf.CD),
     P0 |-> Mul(D_at(q_at(params.rho, kin.U), params.S, cf.CD), kin.U)]

qsf_sample(params, ti) ==
    sample_of(params, kinematics(params, omega_of(params.f), ti),
              coefficients(params, CL_alpha_eff(params),
                           kinematics(params, omega_of(params.f), ti)))

\* the samples over the first n points of the grid t
RECURSIVE qsf_samples(_, _, _)
qsf_samples(params, t, n) ==
    IF n = 0 THEN <<>>
    ELSE Append(qsf_samples(params, t, n - 1), qsf_sample(params, t[n]))

\* eta = (L * U) / P
eta_of(s, P) == [i \in DOMAIN s |-> Div(Mul(s[i].L, s[i].U), P[i])]

\* lines 78-95: the guard on P, the efficiency, and the returned dict
bundle_of(s, P) ==
    [t |-> [i \in DOMAIN s |-> s[i].t],
     L |-> [i \in DOMAIN s |-> s[i].L],
     D |-> [i \in DOMAIN s |-> s[i].D],
     P |-> P,
     eta |-> eta_of(s, P),
     alpha |-> [i \in DOMAIN s |-> s[i].alpha],
     theta_deg |-> [i \in DOMAIN s |-> s[i].theta_deg],
     x_pos |-> [i \in DOMAIN s |-> s[i].x_pos],
     U |-> [i \in DOMAIN s |-> s[i].U],
     CL |-> [i \in DOMAIN s |-> s[i].CL],
     CD |-> [i \in DOMAIN s |-> s[i].CD]]

guarded_bundle(s) == bundle_of(s, zero_guard([i \in DOMAIN s |-> s[i].P0]))

\* lines 10-95 when nothing raises: the returned dict
qsf_bundle(params) ==
    guarded_bundle(qsf_samples(params, time_grid(params.t_end, params.dt),
                               Len(time_grid(params.t_end, params.dt))))

NoBundle ==
    [t |-> <<>>, L |-> <<>>, D |-> <<>>, P |-> <<>>, eta |-> <<>>, alpha |-> <<>>,
     theta_deg |-> <<>>, x_pos |-> <<>>, U |-> <<>>, CL |-> <<>>, CD |-> <<>>]

\* quasi_steady_flap(params): exc is the exception raised ("none": it
\* returned), returned says whether a dict was returned, ret is that dict
quasi_steady_flap(params) ==
    IF qsf_raises(params) # "none"
    THEN [exc |-> qsf_raises(params), returned |-> FALSE, ret |-> NoBundle]
    ELSE [exc |-> "none", returned |-> TRUE, ret |-> qsf_bundle(params)]

(***************************************************************************)
(* State.                                                                  *)
(*   args, result  the parameter set of the latest direct call of          *)
(*                 quasi_steady_flap and what the call produced            *)
(*   heap          the dict objects: heap[0] is the module-level           *)
(*                 base_params, heap[th] the dict that worker thread th    *)
(*                 created last with base_params.copy() (before its first  *)
(*                 copy, and between requests, a copy of the defaults)     *)
(*   pc, req       each worker thread's position in its handler and the    *)
(*                 request it is serving                                   *)
(*   ref           the dict object the handler's local `params` names      *)
(*   idx           the sweep loop's index                                  *)
(*   evals         the parameter sets the handler has passed to            *)
(*                 quasi_steady_flap so far, in call order                 *)
(*   resp          the handler's outcome                                   *)
(***************************************************************************)
VARIABLES args, result, heap, pc, req, ref, idx, evals, resp

corevars == <<args, result>>

apivars == <<heap, pc, req, ref, idx, evals, resp>>

vars == <<args, result, heap, pc, req, ref, idx, evals, resp>>

\* bounds of the direct calls
MaxTEnd == 3

MaxDt == 2

\* the parameter sets a direct caller passes: the valid ones and the ones the
\* preconditions exclude (dt <= 0, c = 0, S = 0, negative pitch_amp)
CallParams ==
    [rho : {Num(0), Num(1)},
     S : {Num(0), Num(1)},
     c : {Num(0), Num(1)},
     f : {Num(0), Frac(1, 4)},
     stroke_amp : {Num(0), Num(1)},
     pitch_amp : {deg2rad(Num(-45)), Num(0), deg2rad(Num(45))},
     pitch_phase : {Num(0), deg2rad(Num(180))},
     dt : {Num(i) : i \in -1..MaxDt},
     t_end : {Num(i) : i \in 0..MaxTEnd},
     CL_alpha : {Mul(Num(2), PI)},
     Uref : {Num(0), Num(2)},
     K_am : {Frac(1, 20)},
     CD0 : {Num(0), Frac(1, 10)},
     CD_alpha : {Frac(3, 2)}]

NotCalled == [exc |-> "not_called", returned |-> FALSE, ret |-> NoBundle]

\* before the first call, and between calls, the caller holds no result;
\* args is then a placeholder
NoArgs ==
    [rho |-> Num(1), S |-> Num(1), c |-> Num(1), f |-> Num(0), stroke_amp |-> Num(0),
     pitch_amp |-> Num(0), pitch_phase |-> Num(0), dt |-> Num(1), t_end |-> Num(0),
     CL_alpha |-> Mul(Num(2), PI), Uref |-> Num(2), K_am |-> Frac(1, 20), CD0 |-> Num(0),
     CD_alpha |-> Frac(3, 2)]

InitCore ==
    /\ args = NoArgs
    /\ result = NotCalled

\* a direct call, res = quasi_steady_flap(p), as run_single makes it
call_quasi_steady_flap ==
    /\ result.exc = "not_called"
    /\ \E p \in CallParams :
        /\ args' = p
        /\ result' = quasi_steady_flap(p)
    /\ UNCHANGED apivars

\* the caller is done with the result (or with the exception)
drop_result ==
    /\ result.exc # "not_called"
    /\ args' = NoArgs
    /\ result' = NotCalled
    /\ UNCHANGED apivars

NextCore == call_quasi_steady_flap \/ drop_result

(***************************************************************************)
(* run_simulation.py and api.py                                            *)
(***************************************************************************)

\* the module-level dict base_params, as run_simulation.py constructs it
base_params ==
    [rho |-> Frac(1225, 1000), S |-> Frac(2, 10000), c |-> Frac(4, 1000), f |-> Num(150),
     stroke_amp |-> Frac(1, 100), pitch_amp |-> deg2rad(Num(45)),
     pitch_phase |-> deg2rad(Num(180)), dt |-> Frac(1, 10000), t_end |-> Frac(3, 100),
     CL_alpha |-> Mul(Num(2), PI), Uref |-> Num(2), K_am |-> Frac(5, 100),
     CD0 |-> Frac(1, 10), CD_alpha |-> Frac(15, 10)]

\* the worker threads that run the (synchronous) endpoint functions
NThreads == 2

Threads == 1..NThreads

\* SimRequest bodies
SimRequests ==
    [kind : {"simulate_plot"}, f : {Num(100), Num(200)}, stroke_amp : {Frac(2, 100)},
     pitch_amp : {Num(1)}, t_end : {Frac(1, 100)}, sweep_type : {""}, base : {Num(0)},
     step : {Num(0)}, freq_hz : {Num(0)}, pitch_deg : {Num(0)}]

\* SweepStepsRequest bodies: the two axes the front end names and one it does not
SweepStepsRequests ==
    {[kind |-> "sweep_steps", f |-> Num(0), stroke_amp |-> Frac(2, 100), pitch_amp |-> Num(0),
      t_end |-> Frac(1, 100), sweep_type |-> x[1], base |-> x[2], step |-> x[3],
      freq_hz |-> Num(120), pitch_deg |-> Num(30)] :
        x \in {<<"pitch", Num(45), Num(15)>>, <<"frequency", Num(150), Num(50)>>,
                <<"stroke", Num(3), Num(1)>>}}

NoRequest ==
    [kind |-> "none", f |-> Num(0), stroke_amp |-> Num(0), pitch_amp |-> Num(0),
     t_end |-> Num(0), sweep_type |-> "", base |-> Num(0), step |-> Num(0),
     freq_hz |-> Num(0), pitch_deg |-> Num(0)]

InitApi ==
    /\ heap = [o \in 0..NThreads |-> base_params]
    /\ pc = [th \in Threads |-> "idle"]
    /\ req = [th \in Threads |-> NoRequest]
    /\ ref = [th \in Threads |-> th]
    /\ idx = [th \in Threads |-> 0]
    /\ evals = [th \in Threads |-> <<>>]
    /\ resp = [th \in Threads |-> "none"]

\* mutant of dict_copy: params = base_params, the shared dict itself
dict_alias(h, th) == [obj |-> 0, heap |-> h]

\* params = base_params.copy(): a new dict object with base_params' items
dict_copy(h, th) == [obj |-> th, heap |-> [h EXCEPT ![th] = h[0]]]

\* mutant of sweep_values: five values upward from base
sweep_values_from_base(r) ==
    <<r.base, Add(r.base, r.step), Add(r.base, Mul(Num(2), r.step)),
      Add(r.base, Mul(Num(3), r.step)), Add(r.base, Mul(Num(4), r.step))>>

\* values = [base - 2*step, base - step, base, base + step, base + 2*step]
sweep_values(r) ==
    <<Sub(r.base, Mul(Num(2), r.step)), Sub(r.base, r.step), r.base,
      Add(r.base, r.step), Add(r.base, Mul(Num(2), r.step))>>

\* a request arrives and a worker thread enters the endpoint function
recv_simulate_plot(th) ==
    /\ pc[th] = "idle"
    /\ \E r \in SimRequests : req' = [req EXCEPT ![th] = r]
    /\ pc' = [pc EXCEPT ![th] = "sim_copy"]
    /\ UNCHANGED <<heap, ref, idx, evals, resp, args, result>>

\* simulate_plot, line 79
sim_copy(th) ==
    /\ pc[th] = "sim_copy"
    /\ heap' = dict_copy(heap, th).heap
    /\ ref' = [ref EXCEPT ![th] = dict_copy(heap, th).obj]
    /\ pc' = [pc EXCEPT ![th] = "sim_override"]
    /\ UNCHANGED <<req, idx, evals, resp, args, result>>

\* simulate_plot, lines 80-83: the four item assignments on params
sim_override(th) ==
    /\ pc[th] = "sim_override"
    /\ heap' = [heap EXCEPT ![ref[th]] =
                    [@ EXCEPT !.f = req[th].f, !.stroke_amp = req[th].stroke_amp,
                              !.pitch_amp = req[th].pitch_amp, !.t_end = req[th].t_end]]
    /\ pc' = [pc EXCEPT ![th] = "sim_evaluate"]
    /\ UNCHANGED <<req, ref, idx, evals, resp, args, result>>

\* simulate_plot, line 85: result = quasi_steady_flap(params).  The call
\* writes nothing to params; its bundle is only drawn (lines 87-119), so the
\* handler's state after it is the parameter set it passed and whether the
\* call raised, which ends the handler with an error.
sim_evaluate(th) ==
    /\ pc[th] = "sim_evaluate"
    /\ evals' = [evals EXCEPT ![th] = Append(@, heap[ref[th]])]
    /\ resp' = [resp EXCEPT ![th] =
                    IF qsf_raises(heap[ref[th]]) = "none" THEN "plot" ELSE "error"]
    /\ pc' = [pc EXCEPT ![th] = "respond"]
    /\ UNCHANGED <<heap, req, ref, idx, args, result>>

recv_sweep_steps(th) ==
    /\ pc[th] = "idle"
    /\ \E r \in SweepStepsRequests : req' = [req EXCEPT ![th] = r]
    /\ idx' = [idx EXCEPT ![th] = 0]
    /\ pc' = [pc EXCEPT ![th] = "sweep_copy"]
    /\ UNCHANGED <<heap, ref, evals, resp, args, result>>

\* sweep_steps, line 136, for the loop's current idx
sweep_copy(th) ==
    /\ pc[th] = "sweep_copy"
    /\ heap' = dict_copy(heap, th).heap
    /\ ref' = [ref EXCEPT ![th] = dict_copy(heap, th).obj]
    /\ pc' = [pc EXCEPT ![th] = "sweep_override"]
    /\ UNCHANGED <<req, idx, evals, resp, args, result>>

\* sweep_steps, lines 137-149: val = values[idx]; the branch on sweep_type
sweep_override(th) ==
    /\ pc[th] = "sweep_override"
    /\ LET r == req[th]
           val == sweep_values(r)[idx[th] + 1]
       IN  heap' = [heap EXCEPT ![ref[th]] =
                IF r.sweep_type = "pitch"
                THEN [@ EXCEPT !.stroke_amp = r.stroke_amp, !.t_end = r.t_end,
                               !.pitch_amp = deg2rad(val), !.f = r.freq_hz]
                ELSE [@ EXCEPT !.stroke_amp = r.stroke_amp, !.t_end = r.t_end,
                               !.pitch_amp = deg2rad(r.pitch_deg), !.f = val]]
    /\ pc' = [pc EXCEPT ![th] = "sweep_evaluate"]
    /\ UNCHANGED <<req, ref, idx, evals, resp, args, result>>

\* sweep_steps, lines 135 and 151-159: r = quasi_steady_flap(params), drawn
\* as in simulate_plot, then the next iteration of the loop over values, or
\* the end of the loop
sweep_evaluate(th) ==
    /\ pc[th] = "sweep_evaluate"
    /\ evals' = [evals EXCEPT ![th] = Append(@, heap[ref[th]])]
    /\ IF qsf_raises(heap[ref[th]]) # "none"
       THEN /\ resp' = [resp EXCEPT ![th] = "error"]
            /\ pc' = [pc EXCEPT ![th] = "respond"]
            /\ idx' = idx
       ELSE IF idx[th] + 1 < Len(sweep_values(req[th]))
       THEN /\ idx' = [idx EXCEPT ![th] = @ + 1]
            /\ pc' = [pc EXCEPT ![th] = "sweep_copy"]
            /\ resp' = resp
       ELSE /\ resp' = [resp EXCEPT ![th] = "plot"]
            /\ pc' = [pc EXCEPT ![th] = "respond"]
            /\ idx' = idx
    /\ UNCHANGED <<heap, req, ref, args, result>>

\* the response (lines 119, 195) or the error is sent; the handler's locals die
respond(th) ==
    /\ pc[th] = "respond"
    /\ pc' = [pc EXCEPT ![th] = "idle"]
    /\ req' = [req EXCEPT ![th] = NoRequest]
    /\ evals' = [evals EXCEPT ![th] = <<>>]
    /\ resp' = [resp EXCEPT ![th] = "none"]
    /\ idx' = [idx EXCEPT ![th] = 0]
    /\ ref' = [ref EXCEPT ![th] = th]
    /\ heap' = [heap EXCEPT ![th] = heap[0]]
    /\ UNCHANGED <<args, result>>

NextApi ==
    \E th \in Threads :
        \/ recv_simulate_plot(th)
        \/ sim_copy(th)
        \/ sim_override(th)
        \/ sim_evaluate(th)
        \/ recv_sweep_steps(th)
        \/ sweep_copy(th)
        \/ sweep_override(th)
        \/ sweep_evaluate(th)
        \/ respond(th)

Init == InitCore /\ InitApi

SpecCore == Init /\ [][NextCore]_vars

SpecApi == Init /\ [][NextApi]_vars
(***************************************************************************)
(* Properties of quasi_steady_flap, checked under SpecCore.                *)
(***************************************************************************)
Returned == result.exc = "none" /\ result.returned

Raised == result.exc \notin {"none", "not_called"} /\ ~result.returned

Positive(a) == Sign(a) > 0

ValidArgs ==
    /\ Positive(args.dt)
    /\ Sign(args.t_end) >= 0
    /\ Positive(args.c)
    /\ Positive(args.S)

BundleKeys == {"t", "x_pos", "U", "alpha", "theta_deg", "L", "D", "P", "eta", "CL", "CD"}

Samples == DOMAIN result.ret.t

\* C1: for valid Parameters every sequence of the returned bundle has
\* exactly floor(t_end/dt) + 1 elements, also when t_end is no multiple of dt.
C1_LengthIsFloorPlusOne ==
    (Returned /\ ValidArgs) =>
        \A key \in BundleKeys :
            Len(result.ret[key]) = FloorInt(Div(args.t_end, args.dt)) + 1

\* C2: for valid Parameters the grid starts at 0, advances by dt per index,
\* ends at t_end and stays inside [0, t_end].
C2_GridEndsAtTEnd ==
    (Returned /\ ValidArgs) =>
        LET t == result.ret.t
        IN  /\ Len(t) >= 1
            /\ t[1] = Num(0)
            /\ \A i \in DOMAIN t : t[i] = Mul(Num(i - 1), args.dt)
            /\ t[Len(t)] = args.t_end
            /\ \A i \in DOMAIN t : Leq(Num(0), t[i]) /\ Leq(t[i], args.t_end)

\* C3: whenever quasi_steady_flap returns, no sample of P or eta is NaN or
\* infinite.
C3_PowerAndEfficiencyFinite ==
    Returned => \A i \in Samples : IsFin(result.ret.P[i]) /\ IsFin(result.ret.eta[i])

\* C4: a call with dt <= 0 or c = 0 ends in an error and returns no bundle.
C4_InvalidParametersRejected ==
    (result.exc # "not_called" /\ (Sign(args.dt) <= 0 \/ IsZero(args.c))) => Raised

\* C7 as stated: every alpha sample lies in [0, pitch_amp], for pitch_amp of
\* any sign.
C7_AlphaInZeroToPitchAmp ==
    Returned =>
        \A i \in Samples :
            Leq(Num(0), result.ret.alpha[i]) /\ Leq(result.ret.alpha[i], args.pitch_amp)

\* C7 as amended: every alpha sample lies between 0 and pitch_amp, that is in
\* [0, pitch_amp] when pitch_amp >= 0 and in [pitch_amp, 0] when pitch_amp <= 0.
C7_AlphaBetweenZeroAndPitchAmp ==
    Returned =>
        \A i \in Samples :
            LET a == result.ret.alpha[i]
            IN  /\ Sign(args.pitch_amp) >= 0 => (Leq(Num(0), a) /\ Leq(a, args.pitch_amp))
                /\ Sign(args.pitch_amp) <= 0 => (Leq(args.pitch_amp, a) /\ Leq(a, Num(0)))

\* a call with negative pitch_amp whose samples reach both ends of the range
C7_Witness ==
    /\ Returned
    /\ Sign(args.pitch_amp) < 0
    /\ \E i \in Samples : result.ret.alpha[i] = args.pitch_amp
    /\ \E i \in Samples : result.ret.alpha[i] = Num(0)

\* C10: exactly the samples with D[i]*U[i] = 0 hold 1e-12 in the returned P,
\* the others hold D[i]*U[i], no returned P sample is zero, and eta[i] is
\* L[i]*U[i] divided by the returned (guarded) P[i].
C10_GuardIsPerSample ==
    Returned =>
        \A i \in Samples :
            LET raw == Mul(result.ret.D[i], result.ret.U[i])
            IN  /\ IsZero(raw) => result.ret.P[i] = Mk(1, 1, -12)
                /\ ~IsZero(raw) => result.ret.P[i] = raw
                /\ ~IsZero(result.ret.P[i])
                /\ result.ret.eta[i] =
                       Div(Mul(result.ret.L[i], result.ret.U[i]), result.ret.P[i])

\* a bundle in which one sample was floored and another was not
C10_Witness ==
    /\ Returned
    /\ \E i, j \in Samples :
        /\ IsZero(Mul(result.ret.D[i], result.ret.U[i]))
        /\ result.ret.P[i] = Mk(1, 1, -12)
        /\ ~IsZero(Mul(result.ret.D[j], result.ret.U[j]))
        /\ result.ret.P[j] = Mul(result.ret.D[j], result.ret.U[j])

(***************************************************************************)
(* Properties of the request handlers, checked under SpecApi.              *)
(***************************************************************************)
Sweeping(th) == req[th].kind = "sweep_steps"

\* the values run_simulation.py gives the fields that no handler assigns
RhoDefault == Frac(1225, 1000)

SDefault == Frac(2, 10000)

CDefault == Frac(4, 1000)

DtDefault == Frac(1, 10000)

CLAlphaDefault == Mul(Num(2), PI)

UrefDefault == Num(2)

KamDefault == Frac(5, 100)

CD0Default == Frac(1, 10)

CDAlphaDefault == Frac(15, 10)

HalfTurn == Num(180)

HalfTurnTimesPi == Mul(Num(180), PI)

DefaultsKept(p) ==
    /\ p.rho = RhoDefault
    /\ p.S = SDefault
    /\ p.c = CDefault
    /\ Mul(p.pitch_phase, HalfTurn) = HalfTurnTimesPi
    /\ p.dt = DtDefault
    /\ p.CL_alpha = CLAlphaDefault
    /\ p.Uref = UrefDefault
    /\ p.K_am = KamDefault
    /\ p.CD0 = CD0Default
    /\ p.CD_alpha = CDAlphaDefault

\* p.pitch_amp is deg degrees: pitch_amp * 180 = deg * pi
PitchIsDegrees(p, deg) == Mul(p.pitch_amp, HalfTurn) = Mul(deg, PI)

\* C5: a sweep request whose axis is neither "pitch" nor "frequency" leads to
\* no evaluation of quasi_steady_flap and ends in an error of its own.
C5_UnknownAxisRejected ==
    \A th \in Threads :
        (Sweeping(th) /\ req[th].sweep_type \notin {"pitch", "frequency"}) =>
            /\ evals[th] = <<>>
            /\ pc[th] = "respond" => resp[th] = "axis_error"

\* C6: a sweep over "pitch" or "frequency" makes exactly five evaluations,
\* the i-th (i = 0..4) with the swept parameter at base + (i-2)*step (pitch in
\* degrees, converted to radians; frequency in Hz) and every other parameter
\* the same in all five; base = 45, step = 15 on "pitch" gives 15, 30, 45,
\* 60, 75 degrees.  Every sweep request makes exactly five evaluations.
C6_FiveEvaluationsAroundBase ==
    \A th \in Threads :
        Sweeping(th) =>
            LET r == req[th]
                n == Len(evals[th])
            IN  /\ n <= 5
                /\ pc[th] = "respond" => n = 5
                /\ r.sweep_type \in {"pitch", "frequency"} =>
                     \A i \in 1..n :
                        LET p == evals[th][i]
                            v == Add(r.base, Mul(Num(i - 3), r.step))
                        IN  /\ r.sweep_type = "pitch" =>
                                 (PitchIsDegrees(p, v) /\ p.f = r.freq_hz)
                            /\ r.sweep_type = "frequency" =>
                                 (p.f = v /\ PitchIsDegrees(p, r.pitch_deg))
                            /\ p.stroke_amp = r.stroke_amp
                            /\ p.t_end = r.t_end
                            /\ DefaultsKept(p)
                /\ (r.sweep_type = "pitch" /\ r.base = Num(45) /\ r.step = Num(15)) =>
                     \A i \in 1..n :
                        PitchIsDegrees(evals[th][i], <<Num(15), Num(30), Num(45), Num(60), Num(75)>>[i])

\* a finished pitch sweep with base 45 and step 15
C6_Witness ==
    \E th \in Threads :
        /\ Sweeping(th)
        /\ pc[th] = "respond"
        /\ resp[th] = "plot"
        /\ req[th].sweep_type = "pitch"
        /\ req[th].base = Num(45)
        /\ req[th].step = Num(15)
        /\ Len(evals[th]) = 5
        /\ PitchIsDegrees(evals[th][1], Num(15))
        /\ PitchIsDegrees(evals[th][5], Num(75))

\* C9: base_params holds its initial values in every state; every evaluation
\* sees the defaults and its own request's overrides, never another
\* request's; and the dict passed to quasi_steady_flap is, after the call,
\* what it was when the call was made.
C9_BaseParamsNeverModified ==
    /\ DefaultsKept(heap[0])
    /\ heap[0].f = Num(150)
    /\ heap[0].stroke_amp = Frac(1, 100)
    /\ PitchIsDegrees(heap[0], Num(45))
    /\ heap[0].t_end = Frac(3, 100)
    /\ \A th \in Threads :
        /\ \A i \in 1..Len(evals[th]) :
            LET p == evals[th][i]
            IN  /\ DefaultsKept(p)
                /\ p.stroke_amp = req[th].stroke_amp
                /\ p.t_end = req[th].t_end
                /\ req[th].kind = "simulate_plot" =>
                     (p.f = req[th].f /\ p.pitch_amp = req[th].pitch_amp)
        /\ (evals[th] # <<>> /\ pc[th] \in {"sweep_copy", "respond"}) =>
             heap[ref[th]] = evals[th][Len(evals[th])]

\* two handlers are under way with different overrides, each having
\* evaluated its own parameter set
C9_Witness ==
    \E a, b \in Threads :
        /\ a # b
        /\ req[a].kind = "simulate_plot"
        /\ Sweeping(b)
        /\ Len(evals[a]) = 1
        /\ Len(evals[b]) >= 2
        /\ evals[a][1].f # evals[b][1].f
        /\ pc[b] = "sweep_override"
====
